---- MODULE Spec2Model ----
(***************************************************************************)
(* A model of the ILVM evaluator (src/src/eval.rs): the register machine,  *)
(* its heap and its free-list allocator.                                   *)
(*                                                                         *)
(* Machine integers.                                                       *)
(*   i32    a value is the integer itself, MinI32..MaxI32.                 *)
(*   usize  a 64-bit value u is written as its signed representative: u   *)
(*          itself when u < 2^63, and u - 2^64 otherwise (2^64 does not    *)
(*          fit a TLC integer).  Arithmetic modulo 2^64 is then integer    *)
(*          arithmetic on the representatives, the unsigned order is ULt,  *)
(*          and a carry or borrow out of 64 bits is UAddOverflows or       *)
(*          USubOverflows.  All representatives of a run stay far inside   *)
(*          MinI32..MaxI32, where `as usize` (sign extension) and `as i32` *)
(*          (truncation) both keep the representative.                     *)
(*   An arithmetic overflow panics when the build has overflow checks (the *)
(*   dev and test profiles) and wraps when it has not (the release         *)
(*   profile): overflow_checks is chosen once, in Init.  A division by     *)
(*   zero, MinI32 / -1, MinI32 % -1 and an index out of range panic in     *)
(*   every build.                                                          *)
(***************************************************************************)
EXTENDS Integers, Sequences, FiniteSets, TLC

VARIABLES
    heap,            \* State.heap: [0 .. heap_size-1 -> i32]
    registers,       \* State.registers: [0 .. num_registers-1 -> i32]
    free_list,       \* State.free_list: sequence of [base, size], head first
    alloc_blocks,    \* State.alloc_blocks: function pointer -> size
    status,          \* "Running", "Exited", "Faulted" (Err returned), "Panicked"
    result,          \* what eval returns: [kind, val]
    instr,           \* the instruction eval_rec evaluated last
    steps,           \* number of instructions evaluated so far
    overflow_checks, \* whether the build panics on arithmetic overflow
    live,            \* history: pointer -> size of the allocations made by
                     \* malloc(n > 0) and not freed since
    blocks,          \* the parsed program: a sequence of <<address, chain>>
    instructions,    \* Env.instructions: function address -> chain
    cont,            \* the chain eval_rec is called on next
    depth,           \* number of activations of eval_rec on the call stack
    stdout           \* the lines println! has written, oldest first

vars == <<heap, registers, free_list, alloc_blocks, status, result, instr,
          steps, overflow_checks, live, blocks, instructions, cont, depth,
          stdout>>

---------------------------------------------------------------------------
(* Bounds of the model. *)

MaxHeapSize == 4
NumRegisters == 2
MaxSteps == 3
MaxMemHeapSize == 2

(* Program constants. *)

MaxI32 == 2147483647
MinI32 == -MaxI32 - 1

---------------------------------------------------------------------------
(* Machine integers. *)

\* a < b on usize
ULt(a, b) == IF (a >= 0) = (b >= 0) THEN a < b ELSE a >= 0

\* a + b on usize carries out of 64 bits
UAddOverflows(a, b) ==
    IF a >= 0 /\ b >= 0 THEN FALSE
    ELSE IF a < 0 /\ b < 0 THEN TRUE
    ELSE a + b >= 0

\* a - b on usize borrows
USubOverflows(a, b) == ULt(a, b)

UAdd(a, b) == a + b

USub(a, b) == a - b

\* n as usize, for an i32 n: sign extension to 64 bits
AsUsize(n) == n

\* u as i32, for a usize u: the low 32 bits
AsI32(u) == u

\* a + b on i32, wrapped to 32 bits
WrapAdd(a, b) ==
    IF b > 0 /\ a > MaxI32 - b THEN (a + MinI32) + (b + MinI32)
    ELSE IF b < 0 /\ a < MinI32 - b THEN (a - MinI32) + (b - MinI32)
    ELSE a + b

AddOverflows(a, b) == (b > 0 /\ a > MaxI32 - b) \/ (b < 0 /\ a < MinI32 - b)

\* a - b on i32, wrapped to 32 bits
WrapSub(a, b) ==
    IF b < 0 /\ a > MaxI32 + b THEN (a + MinI32) - (b - MinI32)
    ELSE IF b > 0 /\ a < MinI32 + b THEN (a - MinI32) - (b + MinI32)
    ELSE a - b

SubOverflows(a, b) == (b < 0 /\ a > MaxI32 + b) \/ (b > 0 /\ a < MinI32 + b)

\* x * 2^k on i32, wrapped to 32 bits, for k in 1..31: the low 31-k bits of
\* x move up by k and bit 31-k of x becomes the sign bit
ShiftWrap(x, k) ==
    LET half == 2^(31 - k)
    IN  (x % half) * 2^k + (IF (x \div half) % 2 = 1 THEN MinI32 ELSE 0)

\* a * c on i32, wrapped to 32 bits, for a byte c in 0..255
WrapMulByte(a, c) ==
    WrapAdd(ShiftWrap((a \div 65536) * c, 16), (a % 65536) * c)

\* a * b on i32, wrapped to 32 bits: a times each byte of b, shifted into place
WrapMul(a, b) ==
    LET t0 == WrapMulByte(a, b % 256)
        t1 == ShiftWrap(WrapMulByte(a, (b \div 256) % 256), 8)
        t2 == ShiftWrap(WrapMulByte(a, (b \div 65536) % 256), 16)
        t3 == ShiftWrap(WrapMulByte(a, (b \div 16777216) % 256), 24)
    IN  WrapAdd(WrapAdd(t0, t1), WrapAdd(t2, t3))

\* |a| without leaving i32: the magnitude as a non-positive number
NegAbs(a) == IF a > 0 THEN -a ELSE a

\* a * b does not fit i32
MulOverflows(a, b) ==
    IF a = 0 \/ b = 0 THEN FALSE
    ELSE LET na == NegAbs(a)
             nb == NegAbs(b)
             positive == (a > 0) = (b > 0)
             \* the product's magnitude is na * nb >= 0; the largest allowed
             \* is MaxI32 for a positive product and MaxI32 + 1 for a negative
             \* one.  na * nb > L  iff  -na > L div -nb  (floor).
         IN  IF nb = MinI32 THEN ~(na = -1 /\ ~positive)
             ELSE IF na = MinI32 THEN ~(nb = -1 /\ ~positive)
             ELSE IF positive THEN (-na) > MaxI32 \div (-nb)
             ELSE IF nb = -1 THEN FALSE
             ELSE (-na) > (MaxI32 \div (-nb))
                          + (IF (MaxI32 % (-nb)) + 1 = -nb THEN 1 ELSE 0)

\* a / b on i32 rounded toward zero, for b # 0 and not (a = MinI32 and b = -1)
TruncDiv(a, b) ==
    IF b > 0 THEN (IF a >= 0 THEN a \div b ELSE (-((-(a + b)) \div b)) - 1)
    ELSE IF b = MinI32 THEN (IF a = MinI32 THEN 1 ELSE 0)
    ELSE \* b < 0, -b fits
         IF a >= 0 THEN -(a \div (-b))
         ELSE ((-(a - b)) \div (-b)) + 1

\* a % b on i32 with the sign of a, under the same conditions
TruncRem(a, b) ==
    IF b = MinI32 THEN (IF a = MinI32 THEN 0 ELSE a)
    ELSE a - b * TruncDiv(a, b)

---------------------------------------------------------------------------
(* syntax.rs: values, operators, instructions. *)

\* Val::Imm(n)
Imm(n) == [kind |-> "Imm", n |-> n]

\* Val::Reg(i)
Reg(i) == [kind |-> "Reg", n |-> i]

\* Op2
Ops == {"Add", "Sub", "Mul", "Div", "Mod", "LT", "Eq"}

\* An instruction without its continuation: the variant, the register r, the
\* operator and the values it holds (Imm(0) and "-" where it holds none).
MkInstr(tag, r, op, v1, v2) ==
    [tag |-> tag, r |-> r, op |-> op, v1 |-> v1, v2 |-> v2]

NoVal == Imm(0)

\* An instruction with its continuations, a chain: rest is the continuation
\* (the true part of an IfZ), alt the false part of an IfZ; End where the
\* variant holds none.
End == [tag |-> "End"]

Chain(tag, r, op, v1, v2, rest, alt) ==
    [tag |-> tag, r |-> r, op |-> op, v1 |-> v1, v2 |-> v2,
     rest |-> rest, alt |-> alt]

InstrGoto(v) == Chain("Goto", 0, "-", v, NoVal, End, End)

InstrExit(v) == Chain("Exit", 0, "-", v, NoVal, End, End)

InstrAbort == Chain("Abort", 0, "-", NoVal, NoVal, End, End)

InstrOp2(r, op, v1, v2, rest) == Chain("Op2", r, op, v1, v2, rest, End)

InstrCopy(r, v, rest) == Chain("Copy", r, "-", v, NoVal, rest, End)

InstrLoad(r, v, rest) == Chain("Load", r, "-", v, NoVal, rest, End)

InstrStore(r, v, rest) == Chain("Store", r, "-", v, NoVal, rest, End)

InstrMalloc(r, v, rest) == Chain("Malloc", r, "-", v, NoVal, rest, End)

InstrFree(r, rest) == Chain("Free", r, "-", NoVal, NoVal, rest, End)

\* Printable::Id(s) and Printable::Val(v)
PrintableId(s) == [kind |-> "Id", n |-> s]

PrintableVal(v) == [kind |-> "Val", n |-> v]

InstrPrint(s, rest) == Chain("Print", 0, "-", s, NoVal, rest, End)

InstrIfZ(v, true_part, false_part) ==
    Chain("IfZ", 0, "-", v, NoVal, true_part, false_part)

\* A chain that is not fixed in advance: it stands for every chain, and the
\* steps of a specification choose its instructions one by one
AnyChain == Chain("Any", 0, "-", NoVal, NoVal, End, End)

\* Block: (address, chain)
Block(address, chain) == <<address, chain>>

\* The program that is one block 0 holding any chain
AnyCode == <<Block(0, AnyChain)>>

---------------------------------------------------------------------------
(* eval.rs: the pure functions. *)

\* reg[i] panics: the index is out of range
IndexPanics(reg, i) == i \notin DOMAIN reg

\* eval_val panics
ValPanics(reg, v) == v.kind = "Reg" /\ IndexPanics(reg, v.n)

eval_val(reg, v) == IF v.kind = "Imm" THEN v.n ELSE reg[v.n]

\* eval_op2 panics: a division by zero or MinI32 / -1 in every build, an
\* overflow of +, -, * in a build with overflow checks
Op2Panics(op2, m, n) ==
    CASE op2 = "Add" -> overflow_checks /\ AddOverflows(m, n)
      [] op2 = "Sub" -> overflow_checks /\ SubOverflows(m, n)
      [] op2 = "Mul" -> overflow_checks /\ MulOverflows(m, n)
      [] op2 = "Div" -> n = 0 \/ (m = MinI32 /\ n = -1)
      [] op2 = "Mod" -> n = 0 \/ (m = MinI32 /\ n = -1)
      [] OTHER -> FALSE

eval_op2(op2, m, n) ==
    CASE op2 = "Add" -> WrapAdd(m, n)
      [] op2 = "Sub" -> WrapSub(m, n)
      [] op2 = "Mul" -> WrapMul(m, n)
      [] op2 = "Div" -> TruncDiv(m, n)
      [] op2 = "Mod" -> TruncRem(m, n)
      [] op2 = "LT" -> IF m < n THEN 1 ELSE 0
      [] op2 = "Eq" -> IF m = n THEN 1 ELSE 0

\* FreeList::Node(base, size, rest) is <<Extent(base, size)>> \o rest
Extent(base, size) == [base |-> base, size |-> size]

\* What malloc returns: Some((list, ptr)), None, or a panic in its arithmetic
Some(list, ptr) == [kind |-> "Some", list |-> list, ptr |-> ptr]
None == [kind |-> "None", list |-> <<>>, ptr |-> 0]
Panic == [kind |-> "Panic", list |-> <<>>, ptr |-> 0]

\* The remainder of a split, Node(base + size, free_size - base, rest): base +
\* size, then free_size - base, each panicking on overflow under overflow checks
SplitPanics(base, free_size, size) ==
    overflow_checks /\ (UAddOverflows(base, size) \/ USubOverflows(free_size, base))

SplitRest(base, free_size, size) == Extent(UAdd(base, size), USub(free_size, base))

RECURSIVE malloc(_, _)
malloc(list, size) ==
    IF list = <<>> THEN None
    ELSE LET base == Head(list).base
             free_size == Head(list).size
             rest == Tail(list)
         IN  IF size = free_size THEN Some(rest, base)
             ELSE IF ULt(size, free_size)
             THEN IF SplitPanics(base, free_size, size) THEN Panic
                  ELSE Some(<<SplitRest(base, free_size, size)>> \o rest, base)
             ELSE LET r == malloc(rest, size)
                  IN  IF r.kind = "Some"
                      THEN Some(<<Extent(base, free_size)>> \o r.list, r.ptr)
                      ELSE r

\* What free returns: the list, or a panic in its arithmetic
Freed(list) == [kind |-> "Ok", list |-> list]
FreePanic == [kind |-> "Panic", list |-> <<>>]

\* a + b panics
UAddPanics(a, b) == overflow_checks /\ UAddOverflows(a, b)

\* A free that merges an extent with its successor only
RECURSIVE free_forward(_, _, _)
free_forward(list, ptr, size) ==
    IF list = <<>> THEN Freed(<<Extent(ptr, size)>>)
    ELSE LET base1 == Head(list).base
             size1 == Head(list).size
             rest1 == Tail(list)
         IN  IF UAdd(ptr, size) = base1
             THEN Freed(<<Extent(ptr, UAdd(size, size1))>> \o rest1)
             ELSE IF ULt(UAdd(ptr, size), base1)
             THEN Freed(<<Extent(ptr, size), Extent(base1, size1)>> \o rest1)
             ELSE Freed(<<Extent(base1, size1)>> \o free_forward(rest1, ptr, size).list)

RECURSIVE free(_, _, _)
free(list, ptr, size) ==
    IF list = <<>> THEN Freed(<<Extent(ptr, size)>>)
    ELSE LET base1 == Head(list).base
             size1 == Head(list).size
             rest1 == Tail(list)
         IN  IF UAddPanics(ptr, size) THEN FreePanic
             ELSE IF UAdd(ptr, size) = base1
             THEN IF UAddPanics(size, size1) THEN FreePanic
                  ELSE Freed(<<Extent(ptr, UAdd(size, size1))>> \o rest1)
             ELSE IF ULt(UAdd(ptr, size), base1)
             THEN Freed(<<Extent(ptr, size), Extent(base1, size1)>> \o rest1)
             ELSE IF UAddPanics(base1, size1) THEN FreePanic
             ELSE IF ptr = UAdd(base1, size1)
             THEN IF UAddPanics(size, size1) THEN FreePanic
                  ELSE free(rest1, base1, UAdd(size, size1))
             ELSE LET r == free(rest1, ptr, size)
                  IN  IF r.kind = "Ok"
                      THEN Freed(<<Extent(base1, size1)>> \o r.list)
                      ELSE r

---------------------------------------------------------------------------
(* eval.rs: the machine. *)

\* HashMap::new() and insert
EmptyMap == [p \in {} |-> 0]

Insert(map, key, value) ==
    [p \in DOMAIN map \cup {key} |-> IF p = key THEN value ELSE map[p]]

\* st.heap.len()
heap_len == Cardinality(DOMAIN heap)

\* R = Result<i32, Error>, and the panic that returns nothing
Ok(n) == [kind |-> "Ok", val |-> n, msg |-> ""]
Runtime(msg) == [kind |-> "Runtime", val |-> 0, msg |-> msg]
Usage(msg) == [kind |-> "Usage", val |-> 0, msg |-> msg]
Pending == [kind |-> "Pending", val |-> 0, msg |-> ""]
Panicked == [kind |-> "Panic", val |-> 0, msg |-> ""]

\* A free list that starts at the null address
InitFreeListFromNull(heap_size) == <<Extent(0, heap_size)>>

\* The free list eval builds: Node(1, heap_size - 1, Nil)
InitFreeList(heap_size) == <<Extent(1, USub(heap_size, 1))>>

\* An absent block 0 reported as a Runtime error
NoBlock0Runtime == Runtime("Expected block 0")

\* .ok_or(Error::Usage("Expected block 0"))
NoBlock0 == Usage("Expected block 0")

\* eval, up to its call of eval_rec on block 0: the state of a fresh machine
\* and the dispatch table; without a block 0, the Usage error it returns
eval(heap_size, num_registers, table, checks) ==
    /\ heap = [a \in 0 .. heap_size - 1 |-> 0]
    /\ registers = [i \in 0 .. num_registers - 1 |-> 0]
    /\ free_list = InitFreeList(heap_size)
    /\ alloc_blocks = EmptyMap
    /\ instructions = table
    /\ IF 0 \in DOMAIN table
       THEN status = "Running" /\ result = Pending /\ cont = table[0]
       ELSE /\ status = "Faulted"
            /\ result = NoBlock0
            /\ cont = End
    /\ instr = MkInstr("Start", 0, "-", NoVal, NoVal)
    /\ steps = 0
    /\ depth = 0
    /\ stdout = <<>>
    /\ overflow_checks = checks
    /\ live = EmptyMap

\* A uniqueness test that compares each address with the one before it only
has_unique_neighbours(addresses) ==
    \A i \in DOMAIN addresses :
        i > 1 => addresses[i] # addresses[i - 1]

\* tc.rs: has_unique_elements over the block addresses
has_unique_elements(addresses) ==
    \A i, j \in DOMAIN addresses : addresses[i] = addresses[j] => i = j

\* blocks.into_iter().collect(): each block inserted in turn, a later block
\* replacing an earlier one of the same address
Collect(code) ==
    [a \in {code[i][1] : i \in DOMAIN code} |->
        LET last == CHOOSE i \in DOMAIN code :
                        /\ code[i][1] = a
                        /\ \A j \in DOMAIN code : code[j][1] = a => j <= i
        IN  code[last][2]]

\* tc.rs: what tc returns, the dispatch table collected from the blocks or the
\* Usage error
tc(code) ==
    IF ~has_unique_elements([i \in DOMAIN code |-> code[i][1]])
    THEN [kind |-> "Usage", msg |-> "duplicate block IDs", table |-> EmptyMap]
    ELSE [kind |-> "Ok", msg |-> "", table |-> Collect(code)]

\* main.rs: parse_and_eval on a program already parsed, up to the call of
\* eval_rec: tc, then eval.  When tc fails no machine is built.
parse_and_eval(code, mem_limit, reg_limit, checks) ==
    /\ blocks = code
    /\ IF tc(code).kind = "Usage"
       THEN /\ heap = EmptyMap
            /\ registers = EmptyMap
            /\ free_list = <<>>
            /\ alloc_blocks = EmptyMap
            /\ instructions = EmptyMap
            /\ status = "Faulted"
            /\ result = Usage(tc(code).msg)
            /\ cont = End
            /\ instr = MkInstr("Start", 0, "-", NoVal, NoVal)
            /\ steps = 0
            /\ depth = 0
            /\ stdout = <<>>
            /\ overflow_checks = checks
            /\ live = EmptyMap
       ELSE eval(mem_limit, reg_limit, tc(code).table, checks)

\* The run ends in a panic.  Nothing observes the machine after a panic: it
\* is left as the instruction found it.
PanicRun ==
    /\ status' = "Panicked"
    /\ result' = Panicked
    /\ UNCHANGED <<heap, registers, free_list, alloc_blocks, live, cont>>

\* An error that is dropped: the run goes on with the continuation
FaultRunGoesOn(msg) ==
    /\ status' = "Running"
    /\ result' = result
    /\ cont' = IF cont.tag = "Any" THEN cont ELSE cont.rest
    /\ UNCHANGED <<heap, registers, free_list, alloc_blocks, live>>

\* return Err(Error::Runtime(msg)), the machine untouched
FaultRun(msg) ==
    /\ status' = "Faulted"
    /\ result' = Runtime(msg)
    /\ UNCHANGED <<heap, registers, free_list, alloc_blocks, live, cont>>

\* eval_rec(st, env, rest): eval_rec goes on with the continuation
Continue ==
    /\ status' = "Running"
    /\ result' = result
    /\ cont' = IF cont = AnyChain THEN AnyChain ELSE cont.rest

\* Every arm of eval_rec: one more instruction evaluated, in one more
\* activation of eval_rec (each arm calls eval_rec for its continuation and
\* returns what that call returns; the language does not promise to reuse the
\* caller's frame)
Activate(i) ==
    /\ status = "Running"
    /\ instr' = i
    /\ steps' = steps + 1
    /\ depth' = depth + 1
    /\ UNCHANGED <<overflow_checks, blocks, instructions>>

\* Every arm but Instr::Print: nothing is written to the output
Evaluate(i) == Activate(i) /\ UNCHANGED stdout

\* Instr::Copy(r, v, rest)
Copy(r, v) ==
    /\ Evaluate(MkInstr("Copy", r, "-", v, NoVal))
    /\ IF ValPanics(registers, v) \/ IndexPanics(registers, r) THEN PanicRun
       ELSE /\ registers' = [registers EXCEPT ![r] = eval_val(registers, v)]
            /\ Continue
            /\ UNCHANGED <<heap, free_list, alloc_blocks, live>>

\* Instr::Op2(r, op, v1, v2, rest)
Op2(r, op, v1, v2) ==
    /\ Evaluate(MkInstr("Op2", r, op, v1, v2))
    /\ IF ValPanics(registers, v1) \/ ValPanics(registers, v2) THEN PanicRun
       ELSE LET m == eval_val(registers, v1)
                n == eval_val(registers, v2)
            IN  IF Op2Panics(op, m, n) \/ IndexPanics(registers, r) THEN PanicRun
                ELSE /\ registers' = [registers EXCEPT ![r] = eval_op2(op, m, n)]
                     /\ Continue
                     /\ UNCHANGED <<heap, free_list, alloc_blocks, live>>

\* ptr >= st.heap.len(), on usize
InvalidAddress(ptr) == ~ULt(ptr, heap_len)

\* A load without the address check: the Vec's own bounds check panics
LoadUnchecked(r, v) ==
    /\ Evaluate(MkInstr("Load", r, "-", v, NoVal))
    /\ IF ValPanics(registers, v) THEN PanicRun
       ELSE LET ptr == AsUsize(eval_val(registers, v))
            IN  IF ptr \notin DOMAIN heap \/ IndexPanics(registers, r) THEN PanicRun
                ELSE /\ registers' = [registers EXCEPT ![r] = heap[ptr]]
                     /\ Continue
                     /\ UNCHANGED <<heap, free_list, alloc_blocks, live>>

\* Instr::Load(r, v, rest)
Load(r, v) ==
    /\ Evaluate(MkInstr("Load", r, "-", v, NoVal))
    /\ IF ValPanics(registers, v) THEN PanicRun
       ELSE LET ptr == AsUsize(eval_val(registers, v))
            IN  IF InvalidAddress(ptr) THEN FaultRun("invalid address")
                ELSE IF IndexPanics(registers, r) THEN PanicRun
                ELSE /\ registers' = [registers EXCEPT ![r] = heap[ptr]]
                     /\ Continue
                     /\ UNCHANGED <<heap, free_list, alloc_blocks, live>>

\* A store that takes the address from v and the value from register r
StoreSwapped(r, v) ==
    /\ Evaluate(MkInstr("Store", r, "-", v, NoVal))
    /\ IF IndexPanics(registers, r) \/ ValPanics(registers, v) THEN PanicRun
       ELSE LET ptr == AsUsize(eval_val(registers, v))
            IN  IF InvalidAddress(ptr) THEN FaultRun("invalid address")
                ELSE /\ heap' = [heap EXCEPT ![ptr] = registers[r]]
                     /\ Continue
                     /\ UNCHANGED <<registers, free_list, alloc_blocks, live>>

\* Instr::Store(r, v, rest)
Store(r, v) ==
    /\ Evaluate(MkInstr("Store", r, "-", v, NoVal))
    /\ IF IndexPanics(registers, r) THEN PanicRun
       ELSE LET ptr == AsUsize(registers[r])
            IN  IF InvalidAddress(ptr) THEN FaultRun("invalid address")
                ELSE IF ValPanics(registers, v) THEN PanicRun
                ELSE /\ heap' = [heap EXCEPT ![ptr] = eval_val(registers, v)]
                     /\ Continue
                     /\ UNCHANGED <<registers, free_list, alloc_blocks, live>>

\* Instr::Print(s, rest): println!("{}", s) writes the printable s as the
\* program gives it
Println(s) ==
    /\ Activate(MkInstr("Print", 0, "-", s, NoVal))
    /\ stdout' = Append(stdout, s)
    /\ Continue
    /\ UNCHANGED <<heap, registers, free_list, alloc_blocks, live>>

\* An exit that returns the number written in its operand unresolved
ExitUnresolved(v) ==
    /\ Evaluate(MkInstr("Exit", 0, "-", v, NoVal))
    /\ status' = "Exited"
    /\ result' = Ok(v.n)
    /\ UNCHANGED <<heap, registers, free_list, alloc_blocks, live, cont>>

\* Instr::Exit(v)
Exit(v) ==
    /\ Evaluate(MkInstr("Exit", 0, "-", v, NoVal))
    /\ IF ValPanics(registers, v) THEN PanicRun
       ELSE /\ status' = "Exited"
            /\ result' = Ok(eval_val(registers, v))
            /\ UNCHANGED <<heap, registers, free_list, alloc_blocks, live, cont>>

\* Instr::Abort()
Abort ==
    /\ Evaluate(MkInstr("Abort", 0, "-", NoVal, NoVal))
    /\ FaultRun("called abort")

\* A goto that takes the number written in its operand, a register's index
\* included, for the address
GotoUnresolved(v) ==
    /\ Evaluate(MkInstr("Goto", 0, "-", v, NoVal))
    /\ IF v.n \in DOMAIN instructions
       THEN /\ status' = "Running"
            /\ result' = result
            /\ cont' = instructions[v.n]
            /\ UNCHANGED <<heap, registers, free_list, alloc_blocks, live>>
       ELSE FaultRun("goto invalid code address")

\* Instr::Goto(v)
Goto(v) ==
    /\ Evaluate(MkInstr("Goto", 0, "-", v, NoVal))
    /\ IF ValPanics(registers, v) THEN PanicRun
       ELSE LET code_ptr == eval_val(registers, v)
            IN  IF code_ptr \in DOMAIN instructions
                THEN /\ status' = "Running"
                     /\ result' = result
                     /\ cont' = instructions[code_ptr]
                     /\ UNCHANGED <<heap, registers, free_list, alloc_blocks, live>>
                ELSE FaultRun("goto invalid code address")

\* A branch that takes the true part for every value that is not positive
IfZNonPositive(v, true_part, false_part) ==
    /\ Evaluate(MkInstr("IfZ", 0, "-", v, NoVal))
    /\ IF ValPanics(registers, v) THEN PanicRun
       ELSE /\ status' = "Running"
            /\ result' = result
            /\ cont' = IF eval_val(registers, v) <= 0 THEN true_part ELSE false_part
            /\ UNCHANGED <<heap, registers, free_list, alloc_blocks, live>>

\* A branch that takes the false part on zero
IfZSwapped(v, true_part, false_part) ==
    /\ Evaluate(MkInstr("IfZ", 0, "-", v, NoVal))
    /\ IF ValPanics(registers, v) THEN PanicRun
       ELSE /\ status' = "Running"
            /\ result' = result
            /\ cont' = IF eval_val(registers, v) = 0 THEN false_part ELSE true_part
            /\ UNCHANGED <<heap, registers, free_list, alloc_blocks, live>>

\* Instr::IfZ(v, true_part, false_part)
IfZ(v, true_part, false_part) ==
    /\ Evaluate(MkInstr("IfZ", 0, "-", v, NoVal))
    /\ IF ValPanics(registers, v) THEN PanicRun
       ELSE /\ status' = "Running"
            /\ result' = result
            /\ cont' = IF eval_val(registers, v) = 0 THEN true_part ELSE false_part
            /\ UNCHANGED <<heap, registers, free_list, alloc_blocks, live>>

\* A malloc that sends a request of 0 words to the allocator like any other
NullRequestNever(n) == FALSE

\* if n == 0: the request that returns the null address
NullRequest(n) == n = 0

\* Instr::Malloc(r, v, rest)
Malloc(r, v) ==
    /\ Evaluate(MkInstr("Malloc", r, "-", v, NoVal))
    /\ IF ValPanics(registers, v) THEN PanicRun
       ELSE LET n == AsUsize(eval_val(registers, v))
                got == malloc(free_list, n)
            IN  IF NullRequest(n)
                THEN IF IndexPanics(registers, r) THEN PanicRun
                     ELSE /\ registers' = [registers EXCEPT ![r] = 0]
                          /\ Continue
                          /\ UNCHANGED <<heap, free_list, alloc_blocks, live>>
                ELSE IF got.kind = "None"
                \* st.free_list was swapped out for Nil before the call
                THEN /\ status' = "Faulted"
                     /\ result' = Runtime("malloc OOM")
                     /\ free_list' = <<>>
                     /\ UNCHANGED <<heap, registers, alloc_blocks, live, cont>>
                ELSE IF got.kind = "Panic" \/ IndexPanics(registers, r)
                THEN PanicRun
                ELSE /\ free_list' = got.list
                     /\ registers' = [registers EXCEPT ![r] = AsI32(got.ptr)]
                     /\ alloc_blocks' = Insert(alloc_blocks, got.ptr, n)
                     /\ live' = Insert(live, got.ptr, n)
                     /\ Continue
                     /\ UNCHANGED heap

\* Instr::Free(r, rest)
Free(r) ==
    /\ Evaluate(MkInstr("Free", r, "-", NoVal, NoVal))
    /\ IF IndexPanics(registers, r) THEN PanicRun
       ELSE LET ptr == AsUsize(registers[r])
            IN  IF ptr \notin DOMAIN alloc_blocks THEN FaultRun("free bad ptr")
                ELSE LET got == free(free_list, ptr, alloc_blocks[ptr])
                     IN  IF got.kind = "Panic" THEN PanicRun
                         ELSE /\ free_list' = got.list
                              /\ live' = [p \in DOMAIN live \ {ptr} |-> live[p]]
                              /\ Continue
                              /\ UNCHANGED <<heap, registers, alloc_blocks>>

---------------------------------------------------------------------------
(* Spec: a machine of NumRegisters registers and a heap of 1..MaxHeapSize   *)
(* words runs any straight-line program of at most MaxSteps copies,        *)
(* allocations and frees, ended or not by an exit or an abort.  Register   *)
(* NumRegisters is out of range.  The immediates are small, so that every  *)
(* usize of a run has a representative TLC can hold.                       *)

RegArgs == 0 .. NumRegisters

ImmArgs == -1 .. MaxHeapSize

ValArgs == {Imm(n) : n \in ImmArgs} \cup {Reg(i) : i \in RegArgs}

Init ==
    \E heap_size \in 1 .. MaxHeapSize, checks \in BOOLEAN :
        parse_and_eval(AnyCode, heap_size, NumRegisters, checks)

StepCopy == steps < MaxSteps /\ \E r \in RegArgs, v \in ValArgs : Copy(r, v)

StepMalloc == steps < MaxSteps /\ \E r \in RegArgs, v \in ValArgs : Malloc(r, v)

StepFree == steps < MaxSteps /\ \E r \in RegArgs : Free(r)

StepExit == steps < MaxSteps /\ \E v \in ValArgs : Exit(v)

StepAbort == steps < MaxSteps /\ Abort

Next ==
    \/ StepCopy
    \/ StepMalloc
    \/ StepFree
    \/ StepExit
    \/ StepAbort

Spec == Init /\ [][Next]_vars

---------------------------------------------------------------------------
(* SpecMem: a machine of NumRegisters registers and a heap of               *)
(* 1..MaxMemHeapSize words runs any straight-line program of at most       *)
(* MaxSteps copies, loads, stores and allocations of an immediate size.    *)
(* The values copied and stored include the ends of i32.                   *)

MemImmArgs == {MinI32, MaxI32} \cup (-1 .. MaxMemHeapSize)

InitMem ==
    \E heap_size \in 1 .. MaxMemHeapSize, checks \in BOOLEAN :
        parse_and_eval(AnyCode, heap_size, NumRegisters, checks)

MemValArgs == {Imm(n) : n \in MemImmArgs} \cup {Reg(i) : i \in RegArgs}

MemCopy ==
    steps < MaxSteps /\ \E r \in RegArgs, n \in MemImmArgs : Copy(r, Imm(n))

MemLoad == steps < MaxSteps /\ \E r \in RegArgs, v \in MemValArgs : Load(r, v)

MemStore == steps < MaxSteps /\ \E r \in RegArgs, v \in MemValArgs : Store(r, v)

MemMalloc ==
    steps < MaxSteps /\ \E r \in RegArgs, n \in 0 .. MaxMemHeapSize : Malloc(r, Imm(n))

NextMem == MemCopy \/ MemLoad \/ MemStore \/ MemMalloc

SpecMem == InitMem /\ [][NextMem]_vars

---------------------------------------------------------------------------
(* The machine of the tests (main.rs, tests::parse_and_eval): 500 words of  *)
(* heap and 10 registers.                                                  *)

TestHeapSize == 500
TestNumRegisters == 10

(* SpecMallocTest: the program of test_malloc, r0 = malloc(n); exit(r0),    *)
(* for every n from 0 to the heap size, on the test machine and on the     *)
(* machines of 2..MaxHeapSize words.                                       *)

InitMallocTest ==
    \E heap_size \in (2 .. MaxHeapSize) \cup {TestHeapSize}, checks \in BOOLEAN :
        parse_and_eval(AnyCode, heap_size, TestNumRegisters, checks)

TestMalloc == steps = 0 /\ \E n \in 0 .. heap_len : Malloc(0, Imm(n))

TestMallocExit == steps = 1 /\ Exit(Reg(0))

NextMallocTest == TestMalloc \/ TestMallocExit

SpecMallocTest == InitMallocTest /\ [][NextMallocTest]_vars

(* SpecArith: the program of test_reg_add, r0 = a; r1 = b; r2 = r0 OP r1;   *)
(* exit(r2), for every operator and every a and b of ArithInputs, with the *)
(* registers of the test machine and a heap of MaxHeapSize words.          *)

ArithInputs ==
    {MinI32, MinI32 + 1, -46341, -200, -11, -2, -1, 0,
     1, 2, 3, 11, 200, 46340, 46341, 65536, MaxI32 - 1, MaxI32}

InitArith ==
    \E checks \in BOOLEAN :
        parse_and_eval(AnyCode, MaxHeapSize, TestNumRegisters, checks)

ArithCopyA == steps = 0 /\ \E a \in ArithInputs : Copy(0, Imm(a))

ArithCopyB == steps = 1 /\ \E b \in ArithInputs : Copy(1, Imm(b))

ArithOp2 == steps = 2 /\ \E op \in Ops : Op2(2, op, Reg(0), Reg(1))

ArithExit == steps = 3 /\ Exit(Reg(2))

NextArith == ArithCopyA \/ ArithCopyB \/ ArithOp2 \/ ArithExit

SpecArith == InitArith /\ [][NextArith]_vars

---------------------------------------------------------------------------
(* The programs of the tests of main.rs, with their constants made inputs.  *)

\* test_exit: block 0 { exit(k); }
ExitCode(k) == <<Block(0, InstrExit(Imm(k)))>>

\* test_goto and test_indirect_goto:
\*   block 0 { r2 = a; r3 = t; goto(v); }  block 10 { r2 = r2 + r3; exit(r2); }
GotoCode(a, t, v) ==
    <<Block(0, InstrCopy(2, Imm(a), InstrCopy(3, Imm(t), InstrGoto(v)))),
      Block(10, InstrOp2(2, "Add", Reg(2), Reg(3), InstrExit(Reg(2))))>>

\* test_ifz: block 0 { r2 = x; ifz v { exit(20); } else { exit(30); } }
IfzCode(x, v) ==
    <<Block(0, InstrCopy(2, Imm(x),
                   InstrIfZ(v, InstrExit(Imm(20)), InstrExit(Imm(30)))))>>

\* test_fac:
\*   block 0 { r2 = 1; r1 = n; goto(1); }
\*   block 1 { ifz r1 { exit(r2); }
\*             else { r2 = r2 * r1; r1 = r1 - 1; goto(1); } }
FacCode(n) ==
    <<Block(0, InstrCopy(2, Imm(1), InstrCopy(1, Imm(n), InstrGoto(Imm(1))))),
      Block(1, InstrIfZ(Reg(1),
                   InstrExit(Reg(2)),
                   InstrOp2(2, "Mul", Reg(2), Reg(1),
                       InstrOp2(1, "Sub", Reg(1), Imm(1), InstrGoto(Imm(1))))))>>

\* block 0 { abort; }
AbortCode == <<Block(0, InstrAbort)>>

\* The programs of n blocks at the addresses of BlockAddresses, the block at
\* position i being { exit(i); }: with and without a block 0, with and without
\* two blocks of one address
BlockAddresses == {0, 1, 10}

ExitBlocks(n) ==
    {[i \in 1 .. n |-> Block(addresses[i], InstrExit(Imm(i)))] :
        addresses \in [1 .. n -> BlockAddresses]}

MaxBlocks == 3

MaxFac == 5

\* test_fac evaluates 5 + 4 * n instructions
MaxRunSteps == 5 + 4 * MaxFac

ExitValues == {MinI32, -1, 0, 200, MaxI32}

GotoTargets == {-10, 0, 3, 9, 10, 11}

Programs ==
    {ExitCode(k) : k \in ExitValues}
    \cup {GotoCode(a, t, Imm(t)) : a \in {0, 200}, t \in GotoTargets}
    \cup {GotoCode(a, t, Reg(3)) : a \in {0, 200}, t \in GotoTargets}
    \cup {IfzCode(x, Reg(2)) : x \in ExitValues \cup {1}}
    \cup {IfzCode(x, Imm(x)) : x \in ExitValues \cup {1}}
    \cup {FacCode(n) : n \in 0 .. MaxFac}
    \cup {AbortCode}
    \cup UNION {ExitBlocks(n) : n \in 0 .. MaxBlocks}

(* SpecProg: the test machine's registers and a heap of MaxHeapSize words   *)
(* run each program of Programs, through tc and eval, for at most          *)
(* MaxRunSteps instructions.                                               *)

InitProg ==
    \E code \in Programs, checks \in BOOLEAN :
        parse_and_eval(code, MaxHeapSize, TestNumRegisters, checks)

RunCopy == steps < MaxRunSteps /\ cont.tag = "Copy" /\ Copy(cont.r, cont.v1)

RunOp2 ==
    steps < MaxRunSteps /\ cont.tag = "Op2" /\ Op2(cont.r, cont.op, cont.v1, cont.v2)

RunGoto == steps < MaxRunSteps /\ cont.tag = "Goto" /\ Goto(cont.v1)

RunIfZ ==
    steps < MaxRunSteps /\ cont.tag = "IfZ" /\ IfZ(cont.v1, cont.rest, cont.alt)

RunExit == steps < MaxRunSteps /\ cont.tag = "Exit" /\ Exit(cont.v1)

RunAbort == steps < MaxRunSteps /\ cont.tag = "Abort" /\ Abort

NextProg ==
    \/ RunCopy
    \/ RunOp2
    \/ RunGoto
    \/ RunIfZ
    \/ RunExit
    \/ RunAbort

SpecProg == InitProg /\ [][NextProg]_vars

(* SpecFac: the same machine runs test_fac for n from 0 to MaxFac.  The     *)
(* interpreter is one thread that evaluates instruction after instruction  *)
(* until the run ends: a step that stays enabled is taken.                 *)

InitFac ==
    \E n \in 0 .. MaxFac, checks \in BOOLEAN :
        parse_and_eval(FacCode(n), MaxHeapSize, TestNumRegisters, checks)

NextFac ==
    \/ RunCopy
    \/ RunOp2
    \/ RunGoto
    \/ RunIfZ
    \/ RunExit

SpecFac == InitFac /\ [][NextFac]_vars /\ WF_vars(NextFac)

---------------------------------------------------------------------------
(* SpecFault: the same machine runs the programs                            *)
(*   block 0 { print(begin); r1 = x; F }                                   *)
(*   block 1 { r3 = 9; *r4 = 9; print(r3); exit(r3); }                     *)
(* where F is an instruction that can fail on r1, followed by the chain of *)
(* block 1 when it has a continuation:                                     *)
(*   r2 = *r1;  *r1 = 7;  r2 = malloc(r1);  r2 = malloc(1); free(r1);      *)
(*   goto(r1);  abort.                                                     *)

FaultTail ==
    InstrCopy(3, Imm(9),
        InstrStore(4, Imm(9),
            InstrPrint(PrintableVal(Reg(3)), InstrExit(Reg(3)))))

FaultKinds == {"Load", "Store", "Malloc", "Free", "Goto", "Abort"}

FaultInstr(kind) ==
    CASE kind = "Load" -> InstrLoad(2, Reg(1), FaultTail)
      [] kind = "Store" -> InstrStore(1, Imm(7), FaultTail)
      [] kind = "Malloc" -> InstrMalloc(2, Reg(1), FaultTail)
      [] kind = "Free" -> InstrMalloc(2, Imm(1), InstrFree(1, FaultTail))
      [] kind = "Goto" -> InstrGoto(Reg(1))
      [] kind = "Abort" -> InstrAbort

FaultCode(kind, x) ==
    <<Block(0, InstrPrint(PrintableId("begin"),
                   InstrCopy(1, Imm(x), FaultInstr(kind)))),
      Block(1, FaultTail)>>

FaultInputs == -1 .. MaxHeapSize + 1

InitFault ==
    \E kind \in FaultKinds, x \in FaultInputs, checks \in BOOLEAN :
        parse_and_eval(FaultCode(kind, x), MaxHeapSize, TestNumRegisters, checks)

RunLoad == steps < MaxRunSteps /\ cont.tag = "Load" /\ Load(cont.r, cont.v1)

RunStore == steps < MaxRunSteps /\ cont.tag = "Store" /\ Store(cont.r, cont.v1)

RunMalloc == steps < MaxRunSteps /\ cont.tag = "Malloc" /\ Malloc(cont.r, cont.v1)

RunFree == steps < MaxRunSteps /\ cont.tag = "Free" /\ Free(cont.r)

RunPrint == steps < MaxRunSteps /\ cont.tag = "Print" /\ Println(cont.v1)

NextFault ==
    \/ RunCopy
    \/ RunLoad
    \/ RunStore
    \/ RunGoto
    \/ RunMalloc
    \/ RunFree
    \/ RunPrint
    \/ RunExit
    \/ RunAbort

SpecFault == InitFault /\ [][NextFault]_vars

---------------------------------------------------------------------------
(* SpecNull: a machine of NumRegisters registers and a heap of              *)
(* 1..MaxHeapSize words runs any straight-line program of at most          *)
(* MaxNullSteps instructions r0 = malloc(n) and free(r0), n an immediate   *)
(* from -MaxHeapSize to MaxHeapSize: a negative n is, as usize, a size     *)
(* just below 2^64.                                                        *)

MaxNullSteps == 5

NullMalloc ==
    steps < MaxNullSteps /\ \E n \in -MaxHeapSize .. MaxHeapSize : Malloc(0, Imm(n))

NullFree == steps < MaxNullSteps /\ Free(0)

NextNull == NullMalloc \/ NullFree

SpecNull == Init /\ [][NextNull]_vars

---------------------------------------------------------------------------
(* SpecFree: free applied once to each free list of extents of positive     *)
(* length that is sorted, disjoint and non-adjacent inside a heap of       *)
(* MaxFreeHeapSize words, and each allocated extent disjoint from it.  The *)
(* machine holds the list, the extent in its table of allocated pointers   *)
(* and the pointer in r0, and evaluates free(r0).                          *)

MaxFreeHeapSize == 7

\* The sorted, non-adjacent free list that covers the addresses of a set: its
\* runs of consecutive addresses, lowest first
RECURSIVE ListOf(_)
ListOf(covered) ==
    IF covered = {} THEN <<>>
    ELSE LET base == CHOOSE a \in covered : \A b \in covered : a <= b
             size == CHOOSE n \in 1 .. Cardinality(covered) :
                         /\ \A a \in base .. base + n - 1 : a \in covered
                         /\ base + n \notin covered
         IN  <<Extent(base, size)>>
                 \o ListOf({a \in covered : a > base + size})

InitFree ==
    \E covered \in SUBSET (1 .. MaxFreeHeapSize - 1),
       ptr \in 1 .. MaxFreeHeapSize - 1,
       size \in 1 .. MaxFreeHeapSize - 1,
       checks \in BOOLEAN :
        /\ ptr + size <= MaxFreeHeapSize
        /\ (ptr .. ptr + size - 1) \cap covered = {}
        /\ heap = [a \in 0 .. MaxFreeHeapSize - 1 |-> 0]
        /\ registers = [i \in 0 .. NumRegisters - 1 |-> IF i = 0 THEN ptr ELSE 0]
        /\ free_list = ListOf(covered)
        /\ alloc_blocks = Insert(EmptyMap, ptr, size)
        /\ live = Insert(EmptyMap, ptr, size)
        /\ blocks = AnyCode
        /\ instructions = Collect(AnyCode)
        /\ cont = AnyChain
        /\ status = "Running"
        /\ result = Pending
        /\ instr = MkInstr("Start", 0, "-", NoVal, NoVal)
        /\ steps = 0
        /\ depth = 0
        /\ stdout = <<>>
        /\ overflow_checks = checks

FreeExtent == steps = 0 /\ Free(0)

NextFree == FreeExtent

SpecFree == InitFree /\ [][NextFree]_vars

---------------------------------------------------------------------------
(* The allocator's claims, under Spec. *)

\* The extent [base, base + size) lies inside [1, heap_size)
InHeap(base, size) == base >= 1 /\ size >= 0 /\ base + size <= heap_len

\* The extents [b1, b1 + s1) and [b2, b2 + s2) share no address
Disjoint(b1, s1, b2, s2) == b1 + s1 <= b2 \/ b2 + s2 <= b1

\* The instruction evaluated by this step names registers that exist
OperandsInRange ==
    ~IndexPanics(registers, instr'.r) /\ ~ValPanics(registers, instr'.v1)

\* The size this step's malloc was asked for
RequestedSize == eval_val(registers, instr'.v1)

\* C1: after any sequence of malloc and free instructions the free extents
\* are sorted by base, pairwise disjoint and non-adjacent, and the free
\* extents, the live allocations and the null address 0 are pairwise
\* non-overlapping and lie inside [0, heap_size).
C1_AllocatorInvariant ==
    /\ \A i \in DOMAIN free_list : InHeap(free_list[i].base, free_list[i].size)
    /\ \A i \in 1 .. Len(free_list) - 1 :
           free_list[i].base + free_list[i].size < free_list[i + 1].base
    /\ \A p \in DOMAIN live : InHeap(p, live[p])
    /\ \A p \in DOMAIN live : \A i \in DOMAIN free_list :
           Disjoint(p, live[p], free_list[i].base, free_list[i].size)
    /\ \A p, q \in DOMAIN live : p # q => Disjoint(p, live[p], q, live[q])

\* C2: every address a successful malloc(n > 0) returns lies in [1, heap_size),
\* every live allocation lies inside [1, heap_size), and no two live
\* allocations overlap.
C2_LiveAllocationsSafe ==
    /\ [](/\ \A p \in DOMAIN live : InHeap(p, live[p])
          /\ \A p, q \in DOMAIN live : p # q => Disjoint(p, live[p], q, live[q]))
    /\ [][(/\ instr'.tag = "Malloc"
           /\ OperandsInRange
           /\ RequestedSize > 0
           /\ status' = "Running")
          => registers'[instr'.r] \in 1 .. heap_len - 1]_vars

\* C3: once every outstanding allocation has been freed, the free list is
\* again the single extent (1, heap_size - 1).
C3_AllFreedRestoresFreeList ==
    (status = "Running" /\ DOMAIN live = {})
        => free_list = <<Extent(1, heap_len - 1)>>

\* C4: a free of an address that no malloc returned, or that was freed and not
\* allocated again since, ends the run with a Runtime fault and leaves the free
\* list as it was.
C4_InvalidFreeFaults ==
    [][(/\ instr'.tag = "Free"
        /\ OperandsInRange
        /\ AsUsize(registers[instr'.r]) \notin DOMAIN live)
       => (/\ status' = "Faulted"
           /\ result'.kind = "Runtime"
           /\ free_list' = free_list)]_vars

\* C5: a malloc whose resolved size is 0 succeeds, writes the null address 0
\* to the target register and leaves the free list and the table of allocated
\* pointers unchanged.
C5_MallocZeroIsNull ==
    [][(/\ instr'.tag = "Malloc"
        /\ OperandsInRange
        /\ RequestedSize = 0)
       => (/\ status' = "Running"
           /\ registers'[instr'.r] = 0
           /\ free_list' = free_list
           /\ alloc_blocks' = alloc_blocks)]_vars

\* A malloc(0) evaluated after an allocation, overwriting the pointer in its
\* target register with the null address
C5_Witness ==
    /\ instr.tag = "Malloc"
    /\ instr.v1 = Imm(0)
    /\ status = "Running"
    /\ DOMAIN alloc_blocks # {}
    /\ free_list # <<Extent(1, heap_len - 1)>>
    /\ \A i \in DOMAIN registers : registers[i] = 0

\* C7: a malloc(n > 0) ends the run with the out-of-memory Runtime fault when n
\* exceeds the length of every free extent, also when the lengths sum to n or
\* more; when some extent has length >= n it succeeds.
C7_OutOfMemoryExactly ==
    [][(/\ instr'.tag = "Malloc"
        /\ OperandsInRange
        /\ RequestedSize > 0)
       => IF \A i \in DOMAIN free_list :
                 ULt(free_list[i].size, AsUsize(RequestedSize))
          THEN status' = "Faulted" /\ result' = Runtime("malloc OOM")
          ELSE status' = "Running"]_vars

---------------------------------------------------------------------------
(* The claim of test_malloc, under SpecMallocTest. *)

\* C6: on a fresh machine the first malloc(n) with 0 < n <= heap_size - 1
\* returns address 1, and r0 = malloc(n); exit(r0) ends with the result 1.
C6_FirstMallocReturnsOne ==
    /\ (instr.tag = "Malloc" /\ instr.v1.n \in 1 .. heap_len - 1)
           => (status = "Running" /\ registers[instr.r] = 1)
    /\ (instr.tag = "Exit" /\ DOMAIN alloc_blocks # {})
           => (status = "Exited" /\ result = Ok(1))

\* test_malloc itself: r0 = malloc(10); exit(r0) on 500 words has ended
C6_Witness ==
    /\ heap_len = TestHeapSize
    /\ instr.tag = "Exit"
    /\ status = "Exited"
    /\ result = Ok(1)
    /\ alloc_blocks = Insert(EmptyMap, 1, 10)

---------------------------------------------------------------------------
(* The claims of the arithmetic, under SpecArith. *)

\* a OP b in wrapping 32-bit two's-complement arithmetic, for b # 0 when OP
\* divides
WrappingOp(op, a, b) ==
    CASE op = "Add" -> WrapAdd(a, b)
      [] op = "Sub" -> WrapSub(a, b)
      [] op = "Mul" -> WrapMul(a, b)
      [] op = "Div" -> IF a = MinI32 /\ b = -1 THEN MinI32 ELSE TruncDiv(a, b)
      [] op = "Mod" -> IF a = MinI32 /\ b = -1 THEN 0 ELSE TruncRem(a, b)
      [] op = "LT" -> IF a < b THEN 1 ELSE 0
      [] op = "Eq" -> IF a = b THEN 1 ELSE 0

\* C8: a divide or modulo whose second operand resolves to 0 ends the run
\* Faulted, with a Runtime error returned to the caller, and in no other way.
C8_DivideByZeroFaults ==
    [][(/\ instr'.tag = "Op2"
        /\ instr'.op \in {"Div", "Mod"}
        /\ eval_val(registers, instr'.v2) = 0)
       => (status' = "Faulted" /\ result'.kind = "Runtime")]_vars

\* C9: r0 = a; r1 = b; r2 = r0 OP r1; exit(r2) returns a OP b computed with
\* wrapping 32-bit arithmetic (b # 0 for divide and modulo), 1 or 0 for
\* less-than and equal.
C9_WrappingArithmetic ==
    [][/\ (/\ instr'.tag = "Op2"
           /\ (instr'.op \in {"Div", "Mod"} => registers[1] # 0))
          => (/\ status' = "Running"
              /\ registers'[2] = WrappingOp(instr'.op, registers[0], registers[1]))
       /\ instr'.tag = "Exit"
          => (status' = "Exited" /\ result' = Ok(registers[2]))]_vars

---------------------------------------------------------------------------
(* The claim of test_load_store, under SpecMem. *)

\* C10: a store of v at an address a in [0, heap_size) changes cell a and no
\* other, and a load from a that follows it at once yields v in its
\* destination register, whether a lies in a live allocation or not.
C10_StoreLoadRoundTrip ==
    [][/\ (/\ instr'.tag = "Store"
           /\ OperandsInRange
           /\ registers[instr'.r] \in 0 .. heap_len - 1)
          => (/\ status' = "Running"
              /\ heap'[registers[instr'.r]] = eval_val(registers, instr'.v1)
              /\ \A a \in DOMAIN heap \ {registers[instr'.r]} : heap'[a] = heap[a]
              /\ DOMAIN heap' = DOMAIN heap)
       /\ (/\ instr.tag = "Store"
           /\ status = "Running"
           /\ instr'.tag = "Load"
           /\ OperandsInRange
           /\ eval_val(registers, instr'.v1) = registers[instr.r])
          => (/\ status' = "Running"
              /\ registers'[instr'.r] = eval_val(registers, instr.v1))]_vars

\* An allocation, a store of MaxI32 through the pointer, and the load from the
\* same address: the value is back in the destination register
C10_Witness ==
    /\ instr.tag = "Load"
    /\ status = "Running"
    /\ \E p \in DOMAIN live : heap[p] = MaxI32
    /\ registers[instr.r] = MaxI32
    /\ steps = 3

\* C11: a load or a store whose resolved address is outside [0, heap_size),
\* at or above heap_size or negative, ends the run with a Runtime fault and
\* changes neither the heap nor any register.
C11_BadAddressFaults ==
    [][(\/ /\ instr'.tag = "Load"
           /\ ~ValPanics(registers, instr'.v1)
           /\ eval_val(registers, instr'.v1) \notin 0 .. heap_len - 1
        \/ /\ instr'.tag = "Store"
           /\ ~IndexPanics(registers, instr'.r)
           /\ registers[instr'.r] \notin 0 .. heap_len - 1)
       => (/\ status' = "Faulted"
           /\ result'.kind = "Runtime"
           /\ heap' = heap
           /\ registers' = registers)]_vars

\* A store through a register holding MinI32, after a store that filled cell
\* 0: the run has faulted and the cell is as it was
C11_Witness ==
    /\ instr.tag = "Store"
    /\ status = "Faulted"
    /\ result.kind = "Runtime"
    /\ registers[instr.r] = MinI32
    /\ heap[0] = MaxI32

---------------------------------------------------------------------------
(* The claims of control transfer, under SpecProg. *)

\* The addresses of the program's blocks
BlockAddressesOf(code) == {code[i][1] : i \in DOMAIN code}

\* The chain of the program's block at the address a, when it has one only
ChainAt(code, a) == code[CHOOSE i \in DOMAIN code : code[i][1] = a][2]

\* Two blocks of the program have the same address
HasDuplicate(code) ==
    \E i, j \in DOMAIN code : i # j /\ code[i][1] = code[j][1]

\* The machine state a control transfer must leave alone
Machine == <<heap, registers, free_list, alloc_blocks>>

\* C12: goto(v) continues at the first instruction of the block whose address
\* is the resolved value of v, in the same way for an immediate and for a
\* register holding the same integer (the state after the goto is fixed by
\* the state before it and the resolved value, and test_goto's program ends
\* with the same result either way); when no block has that address the run
\* ends with a Runtime fault.
C12_GotoDispatch ==
    /\ [][(instr'.tag = "Goto" /\ ~ValPanics(registers, instr'.v1))
          => LET target == eval_val(registers, instr'.v1)
             IN  IF target \in BlockAddressesOf(blocks)
                 THEN /\ status' = "Running"
                      /\ cont' = ChainAt(blocks, target)
                      /\ Machine' = Machine
                      /\ result' = result
                 ELSE /\ status' = "Faulted"
                      /\ result'.kind = "Runtime"]_vars
    /\ [](\A a \in {0, 200}, t \in GotoTargets : \A v \in {Imm(t), Reg(3)} :
              (blocks = GotoCode(a, t, v) /\ status # "Running" /\ t = 10)
                  => (status = "Exited" /\ result = Ok(a + t)))

\* test_indirect_goto itself has ended with 210
C12_Witness ==
    /\ blocks = GotoCode(200, 10, Reg(3))
    /\ instr.tag = "Exit"
    /\ status = "Exited"
    /\ result = Ok(210)

\* C13: ifz v {A} else {B} goes on with exactly one of its two continuations,
\* A if and only if the resolved value of v is exactly 0 and B otherwise, and
\* the branch changes no register, heap cell or allocator state.
C13_IfzSelects ==
    /\ [][(instr'.tag = "IfZ" /\ ~ValPanics(registers, instr'.v1))
          => (/\ status' = "Running"
              /\ cont.tag = "IfZ"
              /\ instr'.v1 = cont.v1
              /\ (eval_val(registers, cont.v1) = 0 => cont' = cont.rest)
              /\ (eval_val(registers, cont.v1) # 0 => cont' = cont.alt)
              /\ Machine' = Machine
              /\ live' = live)]_vars
    /\ [](\A x \in ExitValues \cup {1} : \A v \in {Reg(2), Imm(x)} :
              (blocks = IfzCode(x, v) /\ status # "Running")
                  => (/\ status = "Exited"
                      /\ steps = 3
                      /\ result = (IF x = 0 THEN Ok(20) ELSE Ok(30))))

\* test_ifz with a negative value in r2: the else part has exited with 30
C13_Witness ==
    /\ blocks = IfzCode(-1, Reg(2))
    /\ instr.tag = "Exit"
    /\ status = "Exited"
    /\ result = Ok(30)

\* C15: the run is Running, Exited with a value or Faulted with an error;
\* Exited and Faulted are terminal, no instruction is evaluated and nothing
\* changes afterwards; the run ends Exited with k exactly when an exit(v) was
\* evaluated with the resolved value k; the program that is exit(k) alone in
\* block 0 yields k.
C15_TerminalStates ==
    /\ [](/\ status \in {"Running", "Exited", "Faulted"}
          /\ (status = "Running") = (result = Pending)
          /\ (status = "Exited") = (result.kind = "Ok")
          /\ (status = "Faulted") = (result.kind \in {"Runtime", "Usage"})
          /\ (status = "Exited")
                 = (instr.tag = "Exit" /\ result = Ok(eval_val(registers, instr.v1)))
          /\ \A k \in ExitValues :
                 (blocks = ExitCode(k) /\ status # "Running")
                     => (status = "Exited" /\ result = Ok(k) /\ steps = 1))
    /\ [][status = "Running"]_vars

\* test_exit itself has ended with 200
C15_Witness ==
    /\ blocks = ExitCode(200)
    /\ instr.tag = "Exit"
    /\ status = "Exited"
    /\ result = Ok(200)
    /\ steps = 1

\* C16: when the block table has no block at address 0, eval returns a Usage
\* error, not a Runtime error, and no instruction of any block is evaluated.
C16_NoBlockZeroIsUsage ==
    (~HasDuplicate(blocks) /\ 0 \notin BlockAddressesOf(blocks))
        => (/\ status = "Faulted"
            /\ result.kind = "Usage"
            /\ steps = 0
            /\ instr.tag = "Start"
            /\ \A i \in DOMAIN registers : registers[i] = 0)

\* A program of two blocks, at the addresses 1 and 10, was refused by eval
C16_Witness ==
    /\ Len(blocks) = 2
    /\ BlockAddressesOf(blocks) = {1, 10}
    /\ instructions = Collect(blocks)
    /\ result = Usage("Expected block 0")

\* C17: when two blocks of the parsed program have the same address, tc
\* returns a Usage error and the program is never executed; otherwise the
\* dispatch table has exactly one entry for each block, keyed by its address
\* and mapping to that block's chain.
C17_UniqueBlockAddresses ==
    IF HasDuplicate(blocks)
    THEN /\ status = "Faulted"
         /\ result.kind = "Usage"
         /\ steps = 0
         /\ instr.tag = "Start"
    ELSE /\ DOMAIN instructions = BlockAddressesOf(blocks)
         /\ Cardinality(DOMAIN instructions) = Len(blocks)
         /\ \A i \in DOMAIN blocks : instructions[blocks[i][1]] = blocks[i][2]

\* A program whose first and last block are both at address 0, with a block
\* at another address between them, was refused by tc
C17_Witness ==
    /\ Len(blocks) = 3
    /\ blocks[1][1] = 0
    /\ blocks[2][1] = 10
    /\ blocks[3][1] = 0
    /\ result = Usage("duplicate block IDs")
    /\ steps = 0

\* C18: control transfer is a trampoline: a goto, or the step to an
\* instruction's continuation, nests no new activation of the interpreter, so
\* that one activation of eval_rec is pending however many instructions the
\* program evaluates.
C18_Trampoline == depth <= 1

---------------------------------------------------------------------------
(* The claim of test_fac, under SpecFac. *)

RECURSIVE Factorial(_)
Factorial(n) == IF n = 0 THEN 1 ELSE n * Factorial(n - 1)

\* C14: the loop program of test_fac eventually reaches Exited with the value
\* n! for every n from 0 to MaxFac, with 120 for n = 5, and never faults.
C14_FacTerminates ==
    /\ \A n \in 0 .. MaxFac :
           (blocks = FacCode(n)) ~> (status = "Exited" /\ result = Ok(Factorial(n)))
    /\ (blocks = FacCode(5)) ~> (status = "Exited" /\ result = Ok(120))
    /\ [](status \in {"Running", "Exited"})

\* test_fac itself has ended with 120
C14_Witness ==
    /\ blocks = FacCode(5)
    /\ instr.tag = "Exit"
    /\ status = "Exited"
    /\ result = Ok(120)

---------------------------------------------------------------------------
(* The claims of the allocator's two functions: malloc under Spec, free     *)
(* under SpecFree.                                                         *)

\* The index of the first extent of the list of length >= n
FirstFit(list, n) ==
    CHOOSE k \in DOMAIN list :
        /\ ~ULt(list[k].size, n)
        /\ \A j \in 1 .. k - 1 : ULt(list[j].size, n)

\* The list with its extent k replaced by the extents of a sequence
Replace(list, k, extents) ==
    SubSeq(list, 1, k - 1) \o extents \o SubSeq(list, k + 1, Len(list))

\* C19: malloc(n) with n > 0 is first-fit with a correct split: it returns
\* the base of the first extent whose length is >= n; when the length equals
\* n the extent is removed, when it is larger the extent is replaced by
\* (base + n, length - n); the other extents stay as they are, in order.
C19_FirstFitSplit ==
    [][(/\ instr'.tag = "Malloc"
        /\ OperandsInRange
        /\ RequestedSize > 0
        /\ \E i \in DOMAIN free_list : ~ULt(free_list[i].size, RequestedSize))
       => LET n == RequestedSize
              k == FirstFit(free_list, n)
              base == free_list[k].base
              length == free_list[k].size
          IN  /\ status' = "Running"
              /\ registers'[instr'.r] = base
              /\ free_list' =
                     IF length = n THEN Replace(free_list, k, <<>>)
                     ELSE Replace(free_list, k, <<Extent(base + n, length - n)>>)]_vars

\* The addresses a free list covers
Covered(list) ==
    UNION {list[i].base .. list[i].base + list[i].size - 1 : i \in DOMAIN list}

\* The free list's extents have a positive length and are sorted by base,
\* disjoint and non-adjacent
WellFormed(list) ==
    /\ \A i \in DOMAIN list : list[i].size > 0
    /\ \A i \in 1 .. Len(list) - 1 :
           list[i].base + list[i].size < list[i + 1].base

\* C20: given a free list that is sorted, disjoint and non-adjacent and an
\* extent (ptr, size) with size > 0 that is disjoint from every free extent,
\* free returns a free list that is again sorted, disjoint and non-adjacent
\* and covers exactly the old addresses and [ptr, ptr + size); an extent
\* adjacent to its predecessor and to its successor is merged with both into
\* one extent.
C20_FreeMerges ==
    [][(/\ instr'.tag = "Free"
        /\ ~IndexPanics(registers, instr'.r)
        /\ registers[instr'.r] \in DOMAIN alloc_blocks
        /\ alloc_blocks[registers[instr'.r]] > 0
        /\ WellFormed(free_list)
        /\ \A i \in DOMAIN free_list :
               Disjoint(registers[instr'.r], alloc_blocks[registers[instr'.r]],
                        free_list[i].base, free_list[i].size))
       => LET ptr == registers[instr'.r]
              size == alloc_blocks[ptr]
          IN  /\ status' = "Running"
              /\ WellFormed(free_list')
              /\ Covered(free_list') = Covered(free_list) \cup (ptr .. ptr + size - 1)
              /\ \A i \in 1 .. Len(free_list) - 1 :
                     (/\ free_list[i].base + free_list[i].size = ptr
                      /\ ptr + size = free_list[i + 1].base)
                         => free_list' =
                                Replace(Replace(free_list, i + 1, <<>>), i,
                                    <<Extent(free_list[i].base,
                                             free_list[i].size + size
                                                 + free_list[i + 1].size)>>)]_vars

\* The extent (3, 2) was freed between the free extents (1, 2) and (5, 1):
\* the three are one extent
C20_Witness ==
    /\ instr.tag = "Free"
    /\ status = "Running"
    /\ alloc_blocks = Insert(EmptyMap, 3, 2)
    /\ free_list = <<Extent(1, 5)>>

---------------------------------------------------------------------------
(* The claims of the table of allocated pointers, under Spec. *)

\* C21: in every reachable state the keys of the table of allocated pointers
\* are exactly the base addresses of the live allocations: a successful
\* malloc(n > 0) adds the entry returned address -> n, and a successful free
\* removes the entry of the freed pointer.
C21_TableIsLiveAllocations ==
    /\ DOMAIN alloc_blocks = DOMAIN live
    /\ \A p \in DOMAIN live : alloc_blocks[p] = live[p]

---------------------------------------------------------------------------
(* The claim of the faults, under SpecFault. *)

\* The instruction F of FaultCode(kind, x) fails: an address outside the
\* heap, a size no extent holds, a pointer that is not allocated, an address
\* without a block, an abort
Faults(kind, x) ==
    CASE kind \in {"Load", "Store"} -> x \notin 0 .. heap_len - 1
      [] kind = "Malloc" -> x < 0 \/ x > heap_len - 1
      [] kind = "Free" -> x # 1
      [] kind = "Goto" -> x \notin {0, 1}
      [] kind = "Abort" -> TRUE

\* C22: a Runtime fault (load or store out of bounds, unknown goto target,
\* malloc out of memory, invalid free, abort) ends the run at the faulting
\* instruction: no later instruction of the chain is evaluated, so that no
\* register write, heap write or print follows the fault, and the run's
\* result is that error and never a value.
C22_FaultEndsRun ==
    /\ [][status' = "Faulted"
            => (/\ result'.kind = "Runtime"
                /\ registers' = registers
                /\ heap' = heap
                /\ stdout' = stdout
                /\ cont' = cont)]_vars
    /\ [][status = "Running"]_vars
    /\ [](\A kind \in FaultKinds, x \in FaultInputs :
              (blocks = FaultCode(kind, x) /\ Faults(kind, x))
                  => (/\ result.kind \in {"Pending", "Runtime"}
                      /\ registers[3] = 0
                      /\ heap[0] = 0
                      /\ stdout \in {<<>>, <<PrintableId("begin")>>}
                      /\ (instr.tag = kind
                             => (status = "Faulted" /\ result.kind = "Runtime"))))

\* A store through r1 = -1 has faulted: the chain of block 1 that follows it
\* was not evaluated, r3 and the heap are as they were and only the first
\* print was written
C22_Witness ==
    /\ blocks = FaultCode("Store", -1)
    /\ status = "Faulted"
    /\ instr.tag = "Store"
    /\ cont.rest = FaultTail
    /\ registers[3] = 0
    /\ heap[0] = 0
    /\ stdout = <<PrintableId("begin")>>

---------------------------------------------------------------------------
(* The claims of the panics, under Spec. *)

\* C23: an instruction that reads or writes a register whose index is >=
\* num_registers ends the run with a fault returned to the caller, and not
\* without a classified result.
C23_RegisterIndexFaults ==
    [][(\/ /\ instr'.tag \in {"Copy", "Malloc", "Free"}
           /\ IndexPanics(registers, instr'.r)
        \/ /\ instr'.tag \in {"Copy", "Malloc", "Exit"}
           /\ ValPanics(registers, instr'.v1))
       => (/\ status' = "Faulted"
           /\ result'.kind \in {"Runtime", "Usage"})]_vars

\* C24: in every state a sequence of malloc and free instructions reaches, a
\* malloc(n) with n > 0 either succeeds with an address or returns the
\* out-of-memory Runtime fault; the remainder of a split never underflows, its
\* length is never negative, and the run ends in no other way.
C24_MallocIsTotal ==
    [][(/\ instr'.tag = "Malloc"
        /\ OperandsInRange
        /\ RequestedSize > 0)
       => (/\ \/ status' = "Running"
              \/ status' = "Faulted" /\ result' = Runtime("malloc OOM")
           /\ \A i \in DOMAIN free_list' : free_list'[i].size >= 0)]_vars

---------------------------------------------------------------------------
(* The claim of the null address, under SpecNull. *)

\* C25: free(rN) where rN holds the null address 0, the result of malloc(0)
\* for one, always ends the run with the invalid-free Runtime fault: the
\* address 0 is never recorded in the table of allocated pointers.
C25_FreeNullFaults ==
    [][(/\ instr'.tag = "Free"
        /\ ~IndexPanics(registers, instr'.r)
        /\ registers[instr'.r] = 0)
       => (/\ status' = "Faulted"
           /\ result' = Runtime("free bad ptr"))]_vars

====
